---- MODULE Spec2Model ----
(***************************************************************************)
(* OTP lifecycle of the e-mail verification server (src/server.js, first   *)
(* application: lines 1-310).  The state is the in-memory otpStore map,    *)
(* the wall clock read by Date.now(), the SMTP flag set by initializeSMTP, *)
(* the send-otp requests suspended at `await transporter.sendMail`, and    *)
(* the last HTTP response written.  Each request handler is one operator   *)
(* from (store, clock, request) to (store, response); the actions apply    *)
(* them.                                                                   *)
(***************************************************************************)
EXTENDS Integers, Sequences, FiniteSets

VARIABLES
    otpStore,      \* server.js:18   Map email -> {otp, expiresAt, attempts}
    now,           \* Date.now(), in milliseconds
    ticks,         \* number of clock steps taken (bounds the model)
    credentials,   \* process.env.GMAIL_USER && process.env.GMAIL_APP_PASSWORD (server.js:29)
    smtpEnabled,   \* server.js:22
    issues,        \* number of records stored so far (bounds the model)
    inflight,      \* send-otp handlers suspended at server.js:181
    res,           \* the last response written with res.json(...)
    comparisons,   \* history: per email, executions of server.js:260 since its issue
    issued,        \* history: per email, the last two otps stored for it, newest last
    mailFailures,  \* history: executions of the catch block at server.js:184-187
    overlaps,      \* history: send-otp store steps taken while a dispatch for the same email was pending
    pending,       \* per connection, the verify request received and not yet handled
    answers,       \* per connection, the response to its last verify request
    scriptStore,        \* script.js:399  otpStore of the second application
    scriptTransporter,  \* script.js:345  null until testSMTPConnection resolves
    scriptInflight,     \* send-otp handlers suspended at script.js:425
    scriptRes           \* the last response written by the second application

concVars == <<pending, answers>>
scriptVars == <<scriptStore, scriptTransporter, scriptInflight, scriptRes>>
vars == <<otpStore, now, ticks, credentials, smtpEnabled, issues, inflight, res, comparisons, issued,
          mailFailures, overlaps, concVars, scriptVars>>

-----------------------------------------------------------------------------
(* Bounds of the model *)

MaxTicks == 1
MaxIssues == 2

-----------------------------------------------------------------------------
(* Program constants *)

MaxAttempts == 3
OtpMin == 100000
OtpMax == 999999
ValidityMs == 5 * 60 * 1000

-----------------------------------------------------------------------------
(* JavaScript values of the request bodies.  A string is the sequence of   *)
(* its characters.                                                         *)

Str(s) == [t |-> "string", v |-> s]
Num(n) == [t |-> "number", v |-> n]
Undefined == [t |-> "undefined", v |-> 0]

\* !x is false exactly for truthy x
Truthy(x) ==
    CASE x.t = "string" -> x.v # <<>>
      [] x.t = "number" -> x.v # 0
      [] OTHER -> FALSE

\* a === b
StrictEquals(a, b) == a.t = b.t /\ a.v = b.v

DigitChars == <<"0", "1", "2", "3", "4", "5", "6", "7", "8", "9">>

RECURSIVE Digits(_)
Digits(n) == IF n < 10 THEN <<DigitChars[n + 1]>>
             ELSE Append(Digits(n \div 10), DigitChars[(n % 10) + 1])

\* Number.prototype.toString() of a non-negative integer
ToString(n) == Str(Digits(n))

\* faulty variant: the lower limit dropped
RandomInt_FromZero(min, max) == 0 .. (max - 1)

\* crypto.randomInt(min, max): min inclusive, max exclusive
RandomInt(min, max) == min .. (max - 1)

\* the values generateOTP can return, restricted to the sampled numbers
OtpCandidates == {99999, 100000, 999998, 999999}
generateOTP == {ToString(n) : n \in {c \in OtpCandidates : c \in RandomInt(OtpMin, OtpMax)}}

-----------------------------------------------------------------------------
(* /^[^\s@]+@[^\s@]+\.[^\s@]+$/ *)

Plain(s) == s # <<>> /\ \A i \in 1..Len(s) : s[i] \notin {" ", "@"}

emailRegexTest(s) ==
    \E i \in 1..Len(s) : \E j \in (i + 1)..Len(s) :
        /\ s[i] = "@"
        /\ s[j] = "."
        /\ Plain(SubSeq(s, 1, i - 1))
        /\ Plain(SubSeq(s, i + 1, j - 1))
        /\ Plain(SubSeq(s, j + 1, Len(s)))

-----------------------------------------------------------------------------
(* Map *)

MapHas(m, k) == k \in DOMAIN m
\* faulty variant: set that keeps an existing entry
MapSet_KeepExisting(m, k, val) == [x \in (DOMAIN m) \cup {k} |-> IF x \in DOMAIN m THEN m[x] ELSE val]

MapSet(m, k, val) == [x \in (DOMAIN m) \cup {k} |-> IF x = k THEN val ELSE m[x]]
\* faulty variants: delete that removes nothing, delete that empties the map
MapDelete_Noop(m, k) == m
MapDelete_Clear(m, k) == [x \in {} |-> 0]

MapDelete(m, k) == [x \in (DOMAIN m) \ {k} |-> m[x]]
\* faulty variant: get that answers a blank record for a missing key
MapGet_Default(m, k) ==
    IF MapHas(m, k) THEN m[k] ELSE [otp |-> Str(<<>>), expiresAt |-> ValidityMs, attempts |-> 0]

MapGet(m, k) == IF MapHas(m, k) THEN m[k] ELSE Undefined
EmptyMap == [x \in {} |-> 0]

-----------------------------------------------------------------------------
(* Responses *)

NoResponse == [status |-> 0, body |-> [none |-> TRUE]]
ErrorResponse(code, msg) == [status |-> code, body |-> [error |-> msg]]

MsgRequired == "Email and OTP are required"
MsgNotFound == "No OTP found for this email. Please request a new OTP."
MsgExpired == "OTP has expired. Please request a new one."
MsgExhausted == "Maximum OTP attempts exceeded. Please request a new OTP."
MsgInvalid == "Invalid OTP"

\* crypto.randomBytes(32).toString('hex'), one sampled value
Tokens == {"hex64"}

MsgEmailRequired == "Email is required"
MsgEmailFormat == "Invalid email format"
MsgSent == "OTP sent to your email"
MsgGenerated == "OTP generated (check server console)"

-----------------------------------------------------------------------------
(* POST /api/verify-otp *)

\* faulty variant: the expiry comparison reversed
IsExpired_Reversed(t, storedData) == t < storedData.expiresAt

\* faulty variant: expiry honoured only while attempts remain
IsExpired_AfterAttempts(t, storedData) ==
    t > storedData.expiresAt /\ storedData.attempts < MaxAttempts

\* faulty variant: the record is already expired at the instant expiresAt
IsExpired_NonStrict(t, storedData) == t >= storedData.expiresAt

\* Date.now() > storedData.expiresAt
IsExpired(t, storedData) == t > storedData.expiresAt

\* faulty variants: the attempt limit off by one, either way
AttemptsExceeded_Early(storedData) == storedData.attempts >= MaxAttempts - 1
AttemptsExceeded_Late(storedData) == storedData.attempts > MaxAttempts

\* storedData.attempts >= 3
AttemptsExceeded(storedData) == storedData.attempts >= MaxAttempts

\* faulty variant: the counter advanced by two
IncrementAttempts_Twice(storedData) == [storedData EXCEPT !.attempts = @ + 2]

\* faulty variant: the advanced counter is lost, as if each call wrote back the value it started from
IncrementAttempts_Lost(storedData) == storedData

\* faulty variant: counting a failure also restarts the validity period
IncrementAttempts_Extend(storedData) ==
    [storedData EXCEPT !.attempts = @ + 1, !.expiresAt = @ + ValidityMs]

\* storedData.attempts += 1
IncrementAttempts(storedData) == [storedData EXCEPT !.attempts = @ + 1]

\* faulty variant: the remaining attempts computed as if the counter had not yet been advanced
RemainingAttempts_Stale(storedData) ==
    LET remainingAttempts == MaxAttempts - (storedData.attempts - 1)
    IN  IF remainingAttempts > 0 THEN remainingAttempts ELSE 0

\* remainingAttempts > 0 ? remainingAttempts : 0, with remainingAttempts = 3 - attempts
RemainingAttempts(storedData) ==
    LET remainingAttempts == MaxAttempts - storedData.attempts
    IN  IF remainingAttempts > 0 THEN remainingAttempts ELSE 0

\* faulty variant: the mismatch branch deletes the record once the limit is reached
StoreAfterMismatch_DeleteAtLimit(store, key, storedData) ==
    IF storedData.attempts >= MaxAttempts THEN MapDelete(store, key)
    ELSE MapSet(store, key, storedData)

\* the store after the handler's mismatch branch: the incremented record stays
StoreAfterMismatch(store, key, storedData) == MapSet(store, key, storedData)

\* the whole handler: the store it leaves, the response it writes, and whether
\* it reached the comparison storedData.otp === otp
verifyOtp(store, t, email, otp, token) ==
    IF ~Truthy(email) \/ ~Truthy(otp)
    THEN [store |-> store, res |-> ErrorResponse(400, MsgRequired), compared |-> FALSE]
    ELSE LET storedData == MapGet(store, email.v) IN
         IF storedData = Undefined
         THEN [store |-> store, res |-> ErrorResponse(400, MsgNotFound), compared |-> FALSE]
         ELSE IF IsExpired(t, storedData)
         THEN [store |-> MapDelete(store, email.v),
               res |-> ErrorResponse(400, MsgExpired), compared |-> FALSE]
         ELSE IF AttemptsExceeded(storedData)
         THEN [store |-> MapDelete(store, email.v),
               res |-> ErrorResponse(400, MsgExhausted), compared |-> FALSE]
         ELSE LET incremented == IncrementAttempts(storedData)
                  store1 == MapSet(store, email.v, incremented)
              IN  IF StrictEquals(incremented.otp, otp)
                  THEN [store |-> MapDelete(store1, email.v),
                        res |-> [status |-> 200,
                                 body |-> [success |-> TRUE, token |-> token]],
                        compared |-> TRUE]
                  ELSE [store |-> StoreAfterMismatch(store1, email.v, incremented),
                        res |-> [status |-> 400,
                                 body |-> [error |-> MsgInvalid,
                                           remainingAttempts |-> RemainingAttempts(incremented)]],
                        compared |-> TRUE]

-----------------------------------------------------------------------------
(* The verification results of the specification, read off a response *)

IsError(r, msg) == r.status = 400 /\ "error" \in DOMAIN r.body /\ r.body.error = msg
IsNotFound(r) == IsError(r, MsgNotFound)
IsExpiredResult(r) == IsError(r, MsgExpired)
IsAttemptsExhausted(r) == IsError(r, MsgExhausted)
IsInvalid(r) == IsError(r, MsgInvalid)
IsSuccess(r) == r.status = 200 /\ "token" \in DOMAIN r.body /\ r.body.success

-----------------------------------------------------------------------------
(* POST /api/send-otp, up to the point where it stores the record *)

\* faulty variant: the validity window taken in seconds
NewRecord_Seconds(t, otp) == [otp |-> otp, expiresAt |-> t + 5 * 60, attempts |-> 0]

NewRecord(t, otp) == [otp |-> otp, expiresAt |-> t + ValidityMs, attempts |-> 0]

\* faulty variant: the record is written before the email format is tested
sendOtpStore_StoreFirst(store, t, email, otp) ==
    IF ~Truthy(email)
    THEN [store |-> store, res |-> ErrorResponse(400, MsgEmailRequired), stored |-> FALSE]
    ELSE IF ~emailRegexTest(email.v)
    THEN [store |-> MapSet(store, email.v, NewRecord(t, otp)),
          res |-> ErrorResponse(400, MsgEmailFormat), stored |-> FALSE]
    ELSE [store |-> MapSet(store, email.v, NewRecord(t, otp)),
          res |-> NoResponse, stored |-> TRUE]

sendOtpStore(store, t, email, otp) ==
    IF ~Truthy(email)
    THEN [store |-> store, res |-> ErrorResponse(400, MsgEmailRequired), stored |-> FALSE]
    ELSE IF ~emailRegexTest(email.v)
    THEN [store |-> store, res |-> ErrorResponse(400, MsgEmailFormat), stored |-> FALSE]
    ELSE [store |-> MapSet(store, email.v, NewRecord(t, otp)),
          res |-> NoResponse, stored |-> TRUE]

sendOtpResponse(email, emailSent) ==
    [status |-> 200,
     body |-> [success |-> TRUE,
               message |-> IF emailSent THEN MsgSent ELSE MsgGenerated,
               email |-> email]]

-----------------------------------------------------------------------------
(* GET /api/debug/otps: the listing of the store; it writes nothing *)

\* Math.round(x / 1000)
RoundDiv1000(x) == (2 * x + 1000) \div 2000

debugOtps(store, t) ==
    LET otps == { [email |-> k, otp |-> store[k].otp,
                   expiresIn |-> RoundDiv1000(store[k].expiresAt - t),
                   attempts |-> store[k].attempts] : k \in DOMAIN store }
    IN  [count |-> Cardinality(otps), otps |-> otps]

-----------------------------------------------------------------------------
(* Inputs *)

EmailInputs == { Str(<<"a", "@", "b", ".", "c">>), Str(<<"d", "@", "e", ".", "f">>),
                 Str(<<"a", "@", "b">>), Undefined }
EmailKeys == { e.v : e \in {x \in EmailInputs : x.t = "string"} }
OtpInputs == generateOTP \cup { Str(<<>>), Num(OtpMin) }
\* clock steps: up to the last valid instant of a record issued now, or just past it
TickSteps == {ValidityMs, ValidityMs + 1}

\* two client connections whose verify requests can be in the server at once
Connections == {"x", "y"}
Idle == [email |-> Undefined, otp |-> Undefined]
NoAnswer == [res |-> NoResponse, email |-> Undefined, otp |-> Undefined,
             gen |-> 0, attemptsBefore |-> 0, overlapped |-> FALSE]

-----------------------------------------------------------------------------
(* State machine *)

\* the state after startup; the environment either holds the Gmail credentials or not
InitWith(env) ==
    /\ otpStore = EmptyMap
    /\ now = 0
    /\ ticks = 0
    /\ credentials = env
    /\ smtpEnabled = FALSE
    /\ issues = 0
    /\ inflight = <<>>
    /\ res = NoResponse
    /\ comparisons = [k \in EmailKeys |-> 0]
    /\ issued = [k \in EmailKeys |-> <<>>]
    /\ mailFailures = 0
    /\ overlaps = 0
    /\ pending = [c \in Connections |-> Idle]
    /\ answers = [c \in Connections |-> NoAnswer]
    /\ scriptStore = EmptyMap
    /\ scriptTransporter = FALSE
    /\ scriptInflight = <<>>
    /\ scriptRes = NoResponse

\* initializeSMTP: one of the configurations passes transporter.verify()
InitializeSMTP ==
    /\ credentials
    /\ ~smtpEnabled
    /\ smtpEnabled' = TRUE
    /\ UNCHANGED <<otpStore, now, ticks, credentials, issues, inflight, res, comparisons, issued>>
    /\ UNCHANGED <<mailFailures, overlaps, concVars, scriptVars>>

\* faulty variant: a sweeper that reaps expired records as time passes
Tick_Sweep(d) ==
    /\ ticks < MaxTicks
    /\ ticks' = ticks + 1
    /\ now' = now + d
    /\ otpStore' = [k \in {x \in DOMAIN otpStore : otpStore[x].expiresAt >= now + d} |-> otpStore[k]]
    /\ UNCHANGED <<credentials, smtpEnabled, issues, inflight, res, comparisons, issued>>
    /\ UNCHANGED <<mailFailures, overlaps, concVars, scriptVars>>

\* time passes
Tick(d) ==
    /\ ticks < MaxTicks
    /\ ticks' = ticks + 1
    /\ now' = now + d
    /\ UNCHANGED <<otpStore, credentials, smtpEnabled, issues, inflight, res, comparisons, issued>>
    /\ UNCHANGED <<mailFailures, overlaps, concVars, scriptVars>>

\* the send-otp handler from its entry to its response or to its await
SendOtp(email, otp) ==
    LET r == sendOtpStore(otpStore, now, email, otp) IN
    /\ otpStore' = r.store
    /\ IF r.stored
       THEN /\ issues < MaxIssues
            /\ issues' = issues + 1
            /\ comparisons' = [comparisons EXCEPT ![email.v] = 0]
            /\ issued' = [issued EXCEPT ![email.v] =
                             IF @ = <<>> THEN <<otp>> ELSE <<@[Len(@)], otp>>]
            /\ IF smtpEnabled
               THEN /\ inflight' = Append(inflight, [email |-> email, otp |-> otp])
                    /\ res' = res
               ELSE /\ inflight' = inflight
                    /\ res' = sendOtpResponse(email, FALSE)
       ELSE /\ res' = r.res
            /\ UNCHANGED <<issues, inflight, comparisons, issued>>
    /\ overlaps' = IF r.stored /\ \E i \in 1..Len(inflight) : inflight[i].email = email
                   THEN overlaps + 1 ELSE overlaps
    /\ UNCHANGED <<now, ticks, credentials, smtpEnabled, mailFailures, concVars, scriptVars>>

\* faulty variant: a failed dispatch takes the stored record back
SendMailDone_Rollback(i, emailSent) ==
    /\ i \in 1..Len(inflight)
    /\ inflight' = SubSeq(inflight, 1, i - 1) \o SubSeq(inflight, i + 1, Len(inflight))
    /\ res' = sendOtpResponse(inflight[i].email, emailSent)
    /\ mailFailures' = IF emailSent THEN mailFailures ELSE mailFailures + 1
    /\ overlaps' = overlaps
    /\ otpStore' = IF emailSent THEN otpStore ELSE MapDelete(otpStore, inflight[i].email.v)
    /\ UNCHANGED <<now, ticks, credentials, smtpEnabled, issues, comparisons, issued>>
    /\ UNCHANGED <<concVars, scriptVars>>

\* faulty variant: the resumed handler writes its record again
SendMailDone_Restore(i, emailSent) ==
    /\ i \in 1..Len(inflight)
    /\ inflight' = SubSeq(inflight, 1, i - 1) \o SubSeq(inflight, i + 1, Len(inflight))
    /\ res' = sendOtpResponse(inflight[i].email, emailSent)
    /\ mailFailures' = IF emailSent THEN mailFailures ELSE mailFailures + 1
    /\ overlaps' = overlaps
    /\ otpStore' = MapSet(otpStore, inflight[i].email.v, NewRecord(now, inflight[i].otp))
    /\ UNCHANGED <<now, ticks, credentials, smtpEnabled, issues, comparisons, issued>>
    /\ UNCHANGED <<concVars, scriptVars>>

\* transporter.sendMail settles and the suspended handler responds
SendMailDone(i, emailSent) ==
    /\ i \in 1..Len(inflight)
    /\ inflight' = SubSeq(inflight, 1, i - 1) \o SubSeq(inflight, i + 1, Len(inflight))
    /\ res' = sendOtpResponse(inflight[i].email, emailSent)
    /\ mailFailures' = IF emailSent THEN mailFailures ELSE mailFailures + 1
    /\ overlaps' = overlaps
    /\ UNCHANGED <<otpStore, now, ticks, credentials, smtpEnabled, issues, comparisons, issued>>
    /\ UNCHANGED <<concVars, scriptVars>>

\* the verify-otp handler, which never suspends
VerifyOtp(email, otp, token) ==
    LET r == verifyOtp(otpStore, now, email, otp, token) IN
    /\ otpStore' = r.store
    /\ res' = r.res
    /\ comparisons' = IF r.compared THEN [comparisons EXCEPT ![email.v] = @ + 1]
                      ELSE comparisons
    /\ UNCHANGED <<now, ticks, credentials, smtpEnabled, issues, inflight, issued>>
    /\ UNCHANGED <<mailFailures, overlaps, concVars, scriptVars>>

\* the requests a client can make
Requests ==
    \/ \E d \in TickSteps : Tick(d)
    \/ \E email \in EmailInputs, otp \in generateOTP : SendOtp(email, otp)
    \/ \E email \in EmailInputs, otp \in OtpInputs, token \in Tokens : VerifyOtp(email, otp, token)

\* the server started without credentials: initializeSMTP returns at once and
\* every OTP is written to the console only
Init == InitWith(FALSE)
Next == Requests
Spec == Init /\ [][Next]_vars

\* the server started with credentials: initializeSMTP may connect, and from then
\* on every send-otp handler suspends at transporter.sendMail
\* (one mailbox is enough to overlap dispatches and verifies)
MailEmailInputs == { Str(<<"a", "@", "b", ".", "c">>), Undefined }
InitMail == InitWith(TRUE)
NextMail ==
    \/ \E d \in TickSteps : Tick(d)
    \/ \E email \in MailEmailInputs, otp \in generateOTP : SendOtp(email, otp)
    \/ \E email \in MailEmailInputs, otp \in OtpInputs, token \in Tokens :
          VerifyOtp(email, otp, token)
    \/ InitializeSMTP
    \/ \E i \in 1..MaxIssues, emailSent \in BOOLEAN : SendMailDone(i, emailSent)
SpecMail == InitMail /\ [][NextMail]_vars

\* submitted codes that pass the handler's presence check
Codes == {o \in OtpInputs : Truthy(o)}
\* the token drawn at server.js:265
AnyToken == CHOOSE token \in Tokens : TRUE

-----------------------------------------------------------------------------
(* The second application, src/public/script.js:265-510: the same two routes
   over its own otpStore, with mail dispatch required rather than optional *)

ScriptMsgEmailRequired == "Email is required"
ScriptMsgNotConfigured == "Email service not configured. Please check server logs."
ScriptMsgSent == "OTP sent successfully"
ScriptMsgAuthFailed == "Email authentication failed. Check Gmail credentials."
ScriptMsgTimeout == "Email service timeout. Please try again."
ScriptMsgSendFailed == "Failed to send OTP. Please try again later."
ScriptMsgNotFound == "OTP not found or expired"
ScriptMsgExpired == "OTP expired"
ScriptMsgVerified == "OTP verified successfully"
ScriptMsgTooMany == "Too many failed attempts. Request a new OTP."
ScriptMsgInvalid == "Invalid OTP"

\* the ways transporter.sendMail can settle: fulfilled, or rejected with error.code
MailOutcomes == {"sent", "EAUTH", "ETIMEDOUT", "ECONNECTION"}

\* script.js:381-403  the send-otp handler up to the point where it suspends;
\* the email is not matched against any pattern here
scriptSendOtpStore(store, transporter, t, email, otp) ==
    IF ~Truthy(email)
    THEN [store |-> store, res |-> ErrorResponse(400, ScriptMsgEmailRequired), stored |-> FALSE]
    ELSE IF ~transporter
    THEN [store |-> store, res |-> ErrorResponse(503, ScriptMsgNotConfigured), stored |-> FALSE]
    ELSE [store |-> MapSet(store, email.v, NewRecord(t, otp)),
          res |-> NoResponse, stored |-> TRUE]

\* script.js:425-450  the response once sendMail has settled
scriptSendOtpResponse(outcome) ==
    IF outcome = "sent"
    THEN [status |-> 200, body |-> [success |-> TRUE, message |-> ScriptMsgSent]]
    ELSE IF outcome = "EAUTH" THEN ErrorResponse(500, ScriptMsgAuthFailed)
    ELSE IF outcome = "ETIMEDOUT" THEN ErrorResponse(500, ScriptMsgTimeout)
    ELSE ErrorResponse(500, ScriptMsgSendFailed)

\* script.js:454-497  the verify-otp handler: compare first, count a failure after
scriptVerifyOtp(store, t, email, otp) ==
    IF email.t # "string" \/ ~MapHas(store, email.v)
    THEN [store |-> store, res |-> ErrorResponse(400, ScriptMsgNotFound)]
    ELSE LET storedData == store[email.v] IN
         IF t > storedData.expiresAt
         THEN [store |-> MapDelete(store, email.v), res |-> ErrorResponse(400, ScriptMsgExpired)]
         ELSE IF StrictEquals(storedData.otp, otp)
         THEN [store |-> MapDelete(store, email.v),
               res |-> [status |-> 200, body |-> [success |-> TRUE, message |-> ScriptMsgVerified]]]
         ELSE LET incremented == IncrementAttempts(storedData) IN
              IF incremented.attempts >= MaxAttempts
              THEN [store |-> MapDelete(MapSet(store, email.v, incremented), email.v),
                    res |-> ErrorResponse(400, ScriptMsgTooMany)]
              ELSE [store |-> MapSet(store, email.v, incremented),
                    res |-> [status |-> 400, body |-> [error |-> ScriptMsgInvalid,
                                                       attempts |-> incremented.attempts]]]

\* script.js:344-350  testSMTPConnection resolved with a transporter
ScriptConnected ==
    /\ ~scriptTransporter
    /\ scriptTransporter' = TRUE
    /\ UNCHANGED <<otpStore, now, ticks, credentials, smtpEnabled, issues, inflight, res,
                   comparisons, issued, mailFailures, overlaps, concVars,
                   scriptStore, scriptInflight, scriptRes>>

\* script.js:381-425  send-otp up to the await (otpLimiter allows 5 requests
\* in 15 minutes, more than MaxIssues)
ScriptSendOtp(email, otp) ==
    LET r == scriptSendOtpStore(scriptStore, scriptTransporter, now, email, otp) IN
    /\ scriptStore' = r.store
    /\ IF r.stored
       THEN /\ issues < MaxIssues
            /\ issues' = issues + 1
            /\ scriptInflight' = Append(scriptInflight, [email |-> email, otp |-> otp])
            /\ scriptRes' = scriptRes
       ELSE /\ scriptRes' = r.res
            /\ UNCHANGED <<issues, scriptInflight>>
    /\ UNCHANGED <<otpStore, now, ticks, credentials, smtpEnabled, inflight, res,
                   comparisons, issued, mailFailures, overlaps, concVars, scriptTransporter>>

\* script.js:425-450  sendMail settles and the suspended handler responds
ScriptSendMailDone(i, outcome) ==
    /\ i \in 1..Len(scriptInflight)
    /\ scriptInflight' = SubSeq(scriptInflight, 1, i - 1)
                           \o SubSeq(scriptInflight, i + 1, Len(scriptInflight))
    /\ scriptRes' = scriptSendOtpResponse(outcome)
    /\ UNCHANGED <<otpStore, now, ticks, credentials, smtpEnabled, issues, inflight, res,
                   comparisons, issued, mailFailures, overlaps, concVars, scriptStore, scriptTransporter>>

\* script.js:454-497  the verify-otp handler, which never suspends
ScriptVerifyOtp(email, otp) ==
    LET r == scriptVerifyOtp(scriptStore, now, email, otp) IN
    /\ scriptStore' = r.store
    /\ scriptRes' = r.res
    /\ UNCHANGED <<otpStore, now, ticks, credentials, smtpEnabled, issues, inflight, res,
                   comparisons, issued, mailFailures, overlaps, concVars,
                   scriptTransporter, scriptInflight>>

NextScript ==
    \/ \E d \in TickSteps : Tick(d)
    \/ ScriptConnected
    \/ \E email \in MailEmailInputs, otp \in generateOTP : ScriptSendOtp(email, otp)
    \/ \E i \in 1..MaxIssues, outcome \in MailOutcomes : ScriptSendMailDone(i, outcome)
    \/ \E email \in MailEmailInputs, otp \in OtpInputs : ScriptVerifyOtp(email, otp)
SpecScript == Init /\ [][NextScript]_vars

-----------------------------------------------------------------------------
(* The two applications side by side: every send-otp and verify-otp request
   is given to both at the same instant, with the same code drawn.  script.js
   takes send-otp only once its transporter is set, and the client sends
   the next send-otp after the previous one was answered; server.js runs
   without credentials, where its store steps are the same as with mail
   enabled. *)

PairEmailInputs == { Str(<<"a", "@", "b", ".", "c">>), Str(<<"a", "@", "b">>) }

\* a 200 answer of the verify-otp route of script.js
ScriptIsSuccess(r) == r.status = 200 /\ r.body.message = ScriptMsgVerified

PairSendOtp(email, otp) ==
    LET r == sendOtpStore(otpStore, now, email, otp)
        s == scriptSendOtpStore(scriptStore, scriptTransporter, now, email, otp) IN
    /\ scriptTransporter
    /\ scriptInflight = <<>>
    /\ (r.stored \/ s.stored) => issues < MaxIssues
    /\ issues' = IF r.stored \/ s.stored THEN issues + 1 ELSE issues
    /\ otpStore' = r.store
    /\ IF r.stored
       THEN /\ comparisons' = [comparisons EXCEPT ![email.v] = 0]
            /\ issued' = [issued EXCEPT ![email.v] =
                             IF @ = <<>> THEN <<otp>> ELSE <<@[Len(@)], otp>>]
            /\ res' = sendOtpResponse(email, FALSE)
       ELSE /\ res' = r.res
            /\ UNCHANGED <<comparisons, issued>>
    /\ scriptStore' = s.store
    /\ IF s.stored
       THEN /\ scriptInflight' = Append(scriptInflight, [email |-> email, otp |-> otp])
            /\ scriptRes' = scriptRes
       ELSE /\ scriptRes' = s.res
            /\ scriptInflight' = scriptInflight
    /\ UNCHANGED <<now, ticks, credentials, smtpEnabled, inflight, mailFailures, overlaps,
                   concVars, scriptTransporter>>

PairVerifyOtp(email, otp) ==
    LET r == verifyOtp(otpStore, now, email, otp, AnyToken)
        s == scriptVerifyOtp(scriptStore, now, email, otp) IN
    /\ otpStore' = r.store
    /\ res' = r.res
    /\ comparisons' = IF r.compared THEN [comparisons EXCEPT ![email.v] = @ + 1]
                      ELSE comparisons
    /\ scriptStore' = s.store
    /\ scriptRes' = s.res
    /\ UNCHANGED <<now, ticks, credentials, smtpEnabled, issues, inflight, issued,
                   mailFailures, overlaps, concVars, scriptTransporter, scriptInflight>>

NextPair ==
    \/ \E d \in TickSteps : Tick(d)
    \/ ScriptConnected
    \/ \E email \in PairEmailInputs, otp \in generateOTP : PairSendOtp(email, otp)
    \/ \E i \in 1..MaxIssues : ScriptSendMailDone(i, "sent")
    \/ \E email \in PairEmailInputs, otp \in OtpInputs : PairVerifyOtp(email, otp)
SpecPair == Init /\ [][NextPair]_vars

-----------------------------------------------------------------------------
\* Two connections send verify requests that are in the server together.  Node
\* runs one handler at a time and the verify-otp handler contains no await, so
\* each request is handled in one step, in either order.
ConcEmail == Str(<<"a", "@", "b", ".", "c">>)

\* a verify request of connection c reaches the server and waits for the event loop
Arrive(c, email, otp) ==
    /\ pending[c] = Idle
    /\ answers[c] = NoAnswer
    /\ pending' = [pending EXCEPT ![c] = [email |-> email, otp |-> otp]]
    /\ UNCHANGED <<otpStore, now, ticks, credentials, smtpEnabled, issues, inflight, res,
                   comparisons, issued, mailFailures, overlaps, answers, scriptVars>>

\* the event loop runs the verify-otp handler for the waiting request of connection c
Handle(c) ==
    /\ pending[c] # Idle
    /\ LET req == pending[c]
           r == verifyOtp(otpStore, now, req.email, req.otp, AnyToken) IN
       /\ otpStore' = r.store
       /\ res' = r.res
       /\ comparisons' = IF r.compared THEN [comparisons EXCEPT ![req.email.v] = @ + 1]
                         ELSE comparisons
       /\ answers' = [answers EXCEPT ![c] =
              [res |-> r.res, email |-> req.email, otp |-> req.otp, gen |-> issues,
               attemptsBefore |-> IF MapHas(otpStore, req.email.v)
                                  THEN otpStore[req.email.v].attempts ELSE 0,
               overlapped |-> \E d \in Connections \ {c} : pending[d] # Idle]]
    /\ pending' = [pending EXCEPT ![c] = Idle]
    /\ UNCHANGED <<now, ticks, credentials, smtpEnabled, issues, inflight, issued,
                   mailFailures, overlaps, scriptVars>>

\* both connections have read their responses and may send again
Collect ==
    /\ \A c \in Connections : answers[c] # NoAnswer
    /\ answers' = [c \in Connections |-> NoAnswer]
    /\ UNCHANGED <<otpStore, now, ticks, credentials, smtpEnabled, issues, inflight, res,
                   comparisons, issued, mailFailures, overlaps, pending, scriptVars>>

NextConc ==
    \/ \E d \in TickSteps : Tick(d)
    \/ \E otp \in generateOTP : SendOtp(ConcEmail, otp)
    \/ \E c \in Connections, otp \in Codes : Arrive(c, ConcEmail, otp)
    \/ \E c \in Connections : Handle(c)
    \/ Collect
SpecConc == Init /\ [][NextConc]_vars

-----------------------------------------------------------------------------
(* Vocabulary of the properties *)

\* the instants at which a later request can arrive
Later(t) == {t} \cup {t + d : d \in TickSteps}
\* the result of a verify request arriving in the current state
Verify(k, otp) == verifyOtp(otpStore, now, Str(k), otp, AnyToken)
\* the result of a verify request arriving at time t after the request with result r
VerifyAfter(r, t, k, otp) == verifyOtp(r.store, t, Str(k), otp, AnyToken)

-----------------------------------------------------------------------------
\* C1: for every stored record that is not expired (now <= expiresAt) and whose
\* attempts counter is 0, 1 or 2, verify with the stored code returns Success and
\* removes the record, and the next verify for that email, with any code and at
\* any later instant, returns NotFound.
C1_CorrectCodeSucceedsOnce ==
    \A k \in DOMAIN otpStore :
        LET storedData == otpStore[k] IN
        (now <= storedData.expiresAt /\ storedData.attempts \in 0..2) =>
            LET r == Verify(k, storedData.otp) IN
            /\ IsSuccess(r.res)
            /\ ~MapHas(r.store, k)
            /\ \A t \in Later(now), o \in Codes : IsNotFound(VerifyAfter(r, t, k, o).res)

\* a success on the third comparison (attempts was 2) has removed the record
C1_Witness ==
    \E k \in EmailKeys :
        /\ IsSuccess(res)
        /\ comparisons[k] = MaxAttempts
        /\ ~MapHas(otpStore, k)

\* C2: for every stored record, once now > expiresAt, verify returns Expired and
\* deletes the record whatever code is submitted, the correct one included; it
\* neither returns Success nor compares nor increments attempts.
C2_ExpiredNeverSucceeds ==
    \A k \in DOMAIN otpStore : \A o \in Codes :
        now > otpStore[k].expiresAt =>
            LET r == Verify(k, o) IN
            /\ IsExpiredResult(r.res)
            /\ ~IsSuccess(r.res)
            /\ ~r.compared
            /\ ~MapHas(r.store, k)

\* an expired record has been reaped by a verify that compared nothing
C2_Witness ==
    \E k \in EmailKeys :
        /\ IsExpiredResult(res)
        /\ issued[k] # <<>>
        /\ comparisons[k] = 0
        /\ ~MapHas(otpStore, k)
        /\ now > ValidityMs

\* C3: at most 3 code comparisons are ever performed against one issued record;
\* after 3 of them no later verify compares the submitted code with the record,
\* so the correct code submitted as a 4th attempt never yields Success.
C3_AtMostThreeComparisons ==
    \A k \in EmailKeys :
        /\ comparisons[k] <= 3
        /\ comparisons[k] >= 3 =>
              \A o \in Codes \cup (IF MapHas(otpStore, k) THEN {otpStore[k].otp} ELSE {}) :
                  LET r == Verify(k, o) IN ~r.compared /\ ~IsSuccess(r.res)

\* a fourth verify arrived after three wrong ones and was turned away
C3_Witness ==
    \E k \in EmailKeys :
        /\ comparisons[k] = 3
        /\ IsAttemptsExhausted(res)
        /\ ~MapHas(otpStore, k)

-----------------------------------------------------------------------------
\* C4, as stated: the third cumulative wrong verify deletes the record in that
\* same call, so that no state between calls holds a stored record whose
\* attempts equals the maximum 3.
C4_NoRecordAtLimit ==
    \A k \in DOMAIN otpStore : otpStore[k].attempts < 3

\* C4, amended: the third cumulative wrong verify returns Invalid with
\* remainingAttempts = 0 and leaves the record stored with attempts = 3; the
\* verify that follows compares nothing, deletes the record and returns
\* AttemptsExhausted (Expired once the record has expired), and the verify
\* after that one returns NotFound.
C4_ThirdFailureKeepsRecord ==
    \A k \in DOMAIN otpStore : \A o \in Codes :
        LET storedData == otpStore[k] IN
        (now <= storedData.expiresAt /\ storedData.attempts = 2
            /\ ~StrictEquals(storedData.otp, o)) =>
            LET r == Verify(k, o) IN
            /\ IsInvalid(r.res)
            /\ r.res.body.remainingAttempts = 0
            /\ MapHas(r.store, k)
            /\ r.store[k].attempts = 3
            /\ \A t \in Later(now) : \A o2 \in Codes \cup {storedData.otp} :
                  LET r2 == VerifyAfter(r, t, k, o2) IN
                  /\ ~r2.compared
                  /\ ~MapHas(r2.store, k)
                  /\ IF t > storedData.expiresAt THEN IsExpiredResult(r2.res)
                     ELSE IsAttemptsExhausted(r2.res)
                  /\ \A t3 \in Later(t), o3 \in Codes :
                        IsNotFound(VerifyAfter(r2, t3, k, o3).res)

\* the third wrong verify has answered and its record is still stored, at the limit
C4_Witness ==
    \E k \in DOMAIN otpStore :
        /\ IsInvalid(res)
        /\ res.body.remainingAttempts = 0
        /\ otpStore[k].attempts = 3
        /\ comparisons[k] = 3

\* C5: for every stored, unexpired record with attempts_before in 0..2, verify
\* with a code different from the stored one increments attempts by exactly 1
\* and returns Invalid with remainingAttempts = 2 - attempts_before, in 0..2.
C5_InvalidCountsDown ==
    \A k \in DOMAIN otpStore : \A o \in Codes :
        LET storedData == otpStore[k] IN
        (now <= storedData.expiresAt /\ storedData.attempts \in 0..2
            /\ ~StrictEquals(storedData.otp, o)) =>
            LET r == Verify(k, o) IN
            /\ IsInvalid(r.res)
            /\ r.res.body.remainingAttempts = 2 - storedData.attempts
            /\ r.res.body.remainingAttempts \in 0..2
            /\ MapHas(r.store, k)
            /\ r.store[k].attempts = storedData.attempts + 1

\* the second wrong verify has answered with one attempt remaining
C5_Witness ==
    \E k \in DOMAIN otpStore :
        /\ IsInvalid(res)
        /\ res.body.remainingAttempts = 1
        /\ otpStore[k].attempts = 2
        /\ comparisons[k] = 2

\* C6: after two issues for the same email with codes c1 then c2, c1 # c2,
\* verify with c1 does not return Success (against the live replacing record it
\* is a mismatch), and verify with c2, while unexpired and within the attempt
\* budget, returns Success.
C6_ReissueInvalidatesPriorCode ==
    \A k \in EmailKeys :
        (Len(issued[k]) = 2 /\ ~StrictEquals(issued[k][1], issued[k][2])) =>
            LET c1 == issued[k][1]
                c2 == issued[k][2]
                usable == /\ MapHas(otpStore, k)
                          /\ now <= otpStore[k].expiresAt
                          /\ otpStore[k].attempts < 3
            IN  /\ ~IsSuccess(Verify(k, c1).res)
                /\ usable => IsInvalid(Verify(k, c1).res)
                /\ usable => IsSuccess(Verify(k, c2).res)

\* after a reissue with a different code, the old code failed and the new one succeeded
C6_Witness ==
    \E k \in EmailKeys :
        /\ Len(issued[k]) = 2
        /\ ~StrictEquals(issued[k][1], issued[k][2])
        /\ comparisons[k] = 2
        /\ IsSuccess(res)
        /\ ~MapHas(otpStore, k)

\* C7: issue for a well-formed email, whatever the prior state of that email,
\* leaves exactly one record for it, with the new code, attempts = 0 and
\* expiresAt = now + 5 minutes, and touches no other entry.
C7_IssueReplacesUnconditionally ==
    \A email \in EmailInputs : \A otp \in generateOTP :
        (Truthy(email) /\ emailRegexTest(email.v)) =>
            LET r == sendOtpStore(otpStore, now, email, otp) IN
            /\ r.stored
            /\ DOMAIN r.store = (DOMAIN otpStore) \cup {email.v}
            /\ r.store[email.v] = [otp |-> otp, expiresAt |-> now + 300000, attempts |-> 0]
            /\ \A k \in (DOMAIN otpStore) \ {email.v} : r.store[k] = otpStore[k]

\* an issue has just replaced an older record of the same email
C7_Witness ==
    \E k \in DOMAIN otpStore :
        /\ Len(issued[k]) = 2
        /\ res = sendOtpResponse(Str(k), FALSE)
        /\ now > 0
        /\ otpStore[k] = [otp |-> issued[k][2], expiresAt |-> now + 300000, attempts |-> 0]

\* C8: for every email that has no record in the store, verify returns NotFound
\* for any submitted code and leaves the store unchanged; verify never creates
\* a record.
C8_NoRecordIsNotFound ==
    \A k \in EmailKeys : \A o \in Codes :
        ~MapHas(otpStore, k) =>
            LET r == Verify(k, o) IN
            /\ IsNotFound(r.res)
            /\ r.store = otpStore
            /\ ~r.compared

\* a verify for an email that was never issued a code has answered NotFound
C8_Witness ==
    /\ IsNotFound(res)
    /\ issues = 0
    /\ otpStore = EmptyMap

\* C9: when verify finds a record that is not expired but whose attempts counter
\* is already >= 3, it deletes the record and returns AttemptsExhausted without
\* comparing the code: the correct code does not return Success there.
C9_ExhaustedBeforeComparison ==
    \A k \in DOMAIN otpStore : \A o \in Codes \cup {otpStore[k].otp} :
        (now <= otpStore[k].expiresAt /\ otpStore[k].attempts >= 3) =>
            LET r == Verify(k, o) IN
            /\ IsAttemptsExhausted(r.res)
            /\ ~IsSuccess(r.res)
            /\ ~r.compared
            /\ ~MapHas(r.store, k)

\* an unexpired record at the limit has been turned away and deleted
C9_Witness ==
    \E k \in EmailKeys :
        /\ IsAttemptsExhausted(res)
        /\ ~MapHas(otpStore, k)
        /\ comparisons[k] = 3
        /\ now = 0

\* C10: in every reachable state the attempts counter of every stored record is
\* an integer in 0..3.
C10_AttemptsWithinLimit ==
    \A k \in DOMAIN otpStore : otpStore[k].attempts \in 0..3

\* a stored record whose counter stands at the limit
C10_Witness ==
    \E k \in DOMAIN otpStore : otpStore[k].attempts = 3

-----------------------------------------------------------------------------
\* C15: the checks inside verify are ordered expiry, attempt exhaustion, code
\* comparison: a record that is both expired and at attempts >= 3 gets Expired
\* (not AttemptsExhausted), and an unexpired record at attempts >= 3 gets
\* AttemptsExhausted (not Invalid or Success), whatever code is submitted.
C15_ExpiryThenExhaustionThenComparison ==
    \A k \in DOMAIN otpStore : \A o \in Codes \cup {otpStore[k].otp} :
        otpStore[k].attempts >= 3 =>
            LET r == Verify(k, o) IN
            IF now > otpStore[k].expiresAt
            THEN IsExpiredResult(r.res) /\ ~IsAttemptsExhausted(r.res)
            ELSE IsAttemptsExhausted(r.res) /\ ~IsInvalid(r.res) /\ ~IsSuccess(r.res)

\* a record that was at the limit and expired has been answered Expired
C15_Witness ==
    \E k \in EmailKeys :
        /\ IsExpiredResult(res)
        /\ comparisons[k] = 3
        /\ ~MapHas(otpStore, k)
        /\ issues = 1

\* C16: after a verify has returned a terminal outcome (Success, Expired or
\* AttemptsExhausted), every later verify for that email returns NotFound, the
\* same response as for an email that was never issued a code, for as long as
\* no new issue for it occurs.
C16_TerminalThenNotFound ==
    \A k \in EmailKeys : \A o \in Codes \cup (IF MapHas(otpStore, k) THEN {otpStore[k].otp} ELSE {}) :
        LET r == Verify(k, o) IN
        (IsSuccess(r.res) \/ IsExpiredResult(r.res) \/ IsAttemptsExhausted(r.res)) =>
            \A t2 \in Later(now), o2 \in Codes :
                LET r2 == VerifyAfter(r, t2, k, o2) IN
                /\ IsNotFound(r2.res)
                /\ r2.res = verifyOtp(EmptyMap, t2, Str(k), o2, AnyToken).res
                /\ \A t3 \in Later(t2), o3 \in Codes : IsNotFound(VerifyAfter(r2, t3, k, o3).res)

\* a terminal outcome has just been returned for the only email ever issued a code
C16_Witness ==
    \E k \in EmailKeys :
        /\ IsAttemptsExhausted(res) \/ IsExpiredResult(res) \/ IsSuccess(res)
        /\ \A j \in EmailKeys : (issued[j] # <<>>) = (j = k)
        /\ ~MapHas(otpStore, k)
        /\ ticks = MaxTicks

-----------------------------------------------------------------------------
(* Shape of a code *)

IsDigit(c) == \E d \in 1..10 : DigitChars[d] = c
SixDigitsNoLeadingZero(code) ==
    /\ code.t = "string"
    /\ Len(code.v) = 6
    /\ \A i \in 1..6 : IsDigit(code.v[i])
    /\ code.v[1] # "0"

\* C17: every code produced by issue is a string of exactly 6 decimal digits
\* whose first digit is not 0: its numeric value is at least 100000 and at most
\* 999999.
C17_CodesAreSixDigits ==
    /\ \A code \in generateOTP : SixDigitsNoLeadingZero(code)
    /\ \A k \in DOMAIN otpStore : SixDigitsNoLeadingZero(otpStore[k].otp)
    /\ \A n \in OtpCandidates : n \in RandomInt(OtpMin, OtpMax) => (100000 <= n /\ n <= 999999)

\* a stored code at the low end and one near the high end of the range
C17_Witness ==
    \E j, k \in DOMAIN otpStore :
        /\ otpStore[j].otp = Str(<<"1", "0", "0", "0", "0", "0">>)
        /\ otpStore[k].otp = Str(<<"9", "9", "9", "9", "9", "8">>)

\* C18, as stated: every value of 100000..999999, both endpoints included, is a
\* possible output of code generation: in every state an issue can store the
\* code 100000 and an issue can store the code 999999.
C18_BothEndpointsPossible ==
    \A n \in {100000, 999999} :
        /\ n \in RandomInt(OtpMin, OtpMax)
        /\ \E otp \in generateOTP :
              LET r == sendOtpStore(otpStore, now, Str(<<"a", "@", "b", ".", "c">>), otp)
              IN  r.stored /\ r.store[<<"a", "@", "b", ".", "c">>].otp = ToString(n)

-----------------------------------------------------------------------------
\* C19: calls for different emails are independent: an issue or a verify for
\* email a, with any outcome, leaves the presence, code, expiresAt and attempts
\* of the record of every other email b unchanged, and a verify on b answers
\* the same after the call for a as it would have before it.
C19_OtherEmailsUntouched ==
    \A a \in EmailKeys : \A b \in EmailKeys \ {a} :
        /\ \A o \in OtpInputs :
              LET r == Verify(a, o) IN
              /\ MapGet(r.store, b) = MapGet(otpStore, b)
              /\ \A o2 \in Codes :
                    /\ VerifyAfter(r, now, b, o2).res = Verify(b, o2).res
                    /\ MapGet(VerifyAfter(r, now, b, o2).store, b) = MapGet(Verify(b, o2).store, b)
        /\ \A otp \in generateOTP :
              LET r == sendOtpStore(otpStore, now, Str(a), otp) IN
              /\ MapGet(r.store, b) = MapGet(otpStore, b)
              /\ \A o2 \in Codes : VerifyAfter(r, now, b, o2).res = Verify(b, o2).res

\* one email's record was just consumed while another email's record, with
\* failed attempts of its own, is still stored
C19_Witness ==
    \E a \in EmailKeys : \E b \in DOMAIN otpStore :
        /\ a # b
        /\ IsSuccess(res)
        /\ issued[a] # <<>>
        /\ ~MapHas(otpStore, a)
        /\ otpStore[b].attempts = 2

-----------------------------------------------------------------------------
\* C20: expiry is lazy: the passage of time alone never removes or changes a
\* record, so a record whose expiresAt has passed stays in the store and in the
\* store listing until a verify or an issue touches it; the store changes only
\* in steps of the issue and verify handlers.
C20_LazyExpiry ==
    [][ /\ now' # now =>
            /\ otpStore' = otpStore
            /\ debugOtps(otpStore', now').count = debugOtps(otpStore, now).count
            /\ \A k \in DOMAIN otpStore :
                  \E e \in debugOtps(otpStore', now').otps :
                      e.email = k /\ e.otp = otpStore[k].otp /\ e.attempts = otpStore[k].attempts
        /\ otpStore' # otpStore =>
            \/ \E email \in EmailInputs, otp \in generateOTP : SendOtp(email, otp)
            \/ \E email \in EmailInputs, otp \in OtpInputs, token \in Tokens :
                  VerifyOtp(email, otp, token)
      ]_vars

\* an expired record still stored and listed, with no time left to live
C20_Witness ==
    \E k \in DOMAIN otpStore :
        /\ now > otpStore[k].expiresAt
        /\ \E e \in debugOtps(otpStore, now).otps : e.email = k /\ e.expiresIn <= 0

-----------------------------------------------------------------------------
\* C13: the record is in the store before the dispatch is attempted (the step
\* that suspends a handler at sendMail has already stored the code with a
\* fresh expiry and attempts 0), a dispatch that fails leaves the store as it
\* was, and a verify with the code of a failed dispatch, made while its record
\* is untouched and unexpired, returns Success.
C13_DispatchFailureKeepsRecord ==
    [][ /\ Len(inflight') > Len(inflight) =>
            LET p == inflight'[Len(inflight')] IN
            /\ MapHas(otpStore', p.email.v)
            /\ otpStore'[p.email.v] = [otp |-> p.otp, expiresAt |-> now' + ValidityMs, attempts |-> 0]
        /\ \A i \in 1..Len(inflight) :
              SendMailDone(i, FALSE) =>
                LET k == inflight[i].email.v
                    code == inflight[i].otp IN
                /\ otpStore' = otpStore
                /\ ( /\ MapHas(otpStore, k)
                     /\ otpStore[k].otp = code
                     /\ otpStore[k].attempts < MaxAttempts
                     /\ now' <= otpStore[k].expiresAt )
                   => IsSuccess(verifyOtp(otpStore', now', Str(k), code, AnyToken).res)
      ]_vars

\* a dispatch has failed, the response says the code was generated, and the
\* record of the failed dispatch is still the one stored
C13_Witness ==
    /\ smtpEnabled
    /\ mailFailures = 1
    /\ issues = 1
    /\ inflight = <<>>
    /\ \E k \in DOMAIN otpStore :
         /\ res = sendOtpResponse(Str(k), FALSE)
         /\ otpStore[k].attempts = 0
         /\ issued[k] = <<otpStore[k].otp>>
         /\ IsSuccess(Verify(k, otpStore[k].otp).res)
-----------------------------------------------------------------------------
\* the two connections have both been answered for the same email, and no code
\* was issued between the two handler runs nor since
AnsweredTogether(c, d) ==
    /\ c # d
    /\ answers[c] # NoAnswer
    /\ answers[d] # NoAnswer
    /\ answers[c].email = answers[d].email
    /\ answers[c].gen = issues
    /\ answers[d].gen = issues

\* C11: when two verify requests carrying the code last issued for an email are
\* in the server together, at most one of them returns Success, and when one
\* does the other returns NotFound.
C11_ConcurrentCorrectOneSuccess ==
    \A c, d \in Connections :
        ( /\ AnsweredTogether(c, d)
          /\ issued[answers[c].email.v] # <<>>
          /\ answers[c].otp = issued[answers[c].email.v][Len(issued[answers[c].email.v])]
          /\ answers[d].otp = answers[c].otp )
        => /\ ~(IsSuccess(answers[c].res) /\ IsSuccess(answers[d].res))
           /\ IsSuccess(answers[c].res) => IsNotFound(answers[d].res)

\* one request was handled while the other was waiting and returned Success;
\* the other, with the same code, returned NotFound
C11_Witness ==
    \E c, d \in Connections :
        /\ AnsweredTogether(c, d)
        /\ answers[c].overlapped
        /\ answers[d].otp = answers[c].otp
        /\ IsSuccess(answers[c].res)
        /\ IsNotFound(answers[d].res)
        /\ ~MapHas(otpStore, answers[c].email.v)

\* C12: when two verify requests with wrong codes are in the server together
\* and both return Invalid, their remainingAttempts differ (by one: the later
\* call saw the earlier call's increment) and the record's attempts counter
\* has grown by exactly 2 from the value the earlier call found.
C12_ConcurrentWrongNoLostUpdate ==
    \A c, d \in Connections :
        ( /\ AnsweredTogether(c, d)
          /\ IsInvalid(answers[c].res)
          /\ IsInvalid(answers[d].res)
          /\ answers[c].attemptsBefore <= answers[d].attemptsBefore )
        => LET k == answers[c].email.v IN
           /\ answers[c].res.body.remainingAttempts # answers[d].res.body.remainingAttempts
           /\ answers[c].res.body.remainingAttempts = answers[d].res.body.remainingAttempts + 1
           /\ MapHas(otpStore, k)
           /\ otpStore[k].attempts = answers[c].attemptsBefore + 2

\* one wrong request was handled while the other was waiting; both returned
\* Invalid, with 1 and 0 remaining, on a record that had one failure before
C12_Witness ==
    \E c, d \in Connections :
        /\ AnsweredTogether(c, d)
        /\ answers[c].overlapped
        /\ IsInvalid(answers[c].res)
        /\ IsInvalid(answers[d].res)
        /\ answers[c].attemptsBefore = 1
        /\ answers[c].res.body.remainingAttempts = 1
        /\ answers[d].res.body.remainingAttempts = 0
        /\ otpStore[answers[c].email.v].attempts = MaxAttempts
-----------------------------------------------------------------------------
\* well-formed identities
WellFormedEmails == {e \in MailEmailInputs : Truthy(e) /\ emailRegexTest(e.v)}

\* C14: every issue call with a well-formed identity ends with a live record
\* for that identity in the store, whatever the state of the mail transport.
\* In script.js the call is refused with 503 and stores nothing while the
\* transporter is null.
C14_IssueAlwaysStores ==
    \A email \in WellFormedEmails : \A otp \in generateOTP :
        LET r == scriptSendOtpStore(scriptStore, scriptTransporter, now, email, otp) IN
        /\ r.stored
        /\ MapHas(r.store, email.v)
        /\ r.store[email.v] = NewRecord(now, otp)
-----------------------------------------------------------------------------
\* C21: in every step, a record stored before and after keeps its code and
\* its expiresAt unless the step is a send-otp for that email, which writes a
\* whole new record (fresh code, expiresAt = now + 5 min, attempts 0); and a
\* verify step that compared a code and left the record stored answered
\* Invalid and changed nothing in the store but that record's attempts field,
\* which is one higher.
C21_VerifyKeepsCodeAndExpiry ==
    [][ \A k \in DOMAIN otpStore \cap DOMAIN otpStore' :
          /\ ( \/ otpStore'[k].otp # otpStore[k].otp
               \/ otpStore'[k].expiresAt # otpStore[k].expiresAt )
             => /\ issues' = issues + 1
                /\ otpStore'[k] = NewRecord(now, issued'[k][Len(issued'[k])])
          /\ comparisons'[k] = comparisons[k] + 1
             => /\ IsInvalid(res')
                /\ otpStore' = [otpStore EXCEPT ![k].attempts = @ + 1]
      ]_vars

\* a verify has answered Invalid and the record still carries the code issued
\* and the expiry written at issuance
C21_Witness ==
    \E k \in DOMAIN otpStore :
        /\ IsInvalid(res)
        /\ otpStore[k].attempts = 1
        /\ comparisons[k] = 1
        /\ issued[k] = <<otpStore[k].otp>>
        /\ otpStore[k].expiresAt = ValidityMs
        /\ now > 0
-----------------------------------------------------------------------------
\* C22: the expiry test is strict.  For a stored record with attempts below
\* the limit, at the instant now = expiresAt verify with the stored code
\* returns Success; and a verify returns Expired exactly when a record exists
\* for the email and now > expiresAt.
C22_ExpiryIsStrict ==
    \A k \in DOMAIN otpStore :
        /\ (now = otpStore[k].expiresAt /\ otpStore[k].attempts < MaxAttempts)
             => IsSuccess(Verify(k, otpStore[k].otp).res)
        /\ \A o \in Codes :
             IsExpiredResult(Verify(k, o).res) <=> now > otpStore[k].expiresAt

\* exactly 5 minutes after issuance the stored code is accepted, and one
\* millisecond later the same request is answered Expired
C22_Witness ==
    \E k \in DOMAIN otpStore :
        /\ now = ValidityMs
        /\ otpStore[k].expiresAt = now
        /\ otpStore[k].attempts = 0
        /\ IsSuccess(Verify(k, otpStore[k].otp).res)
        /\ IsExpiredResult(verifyOtp(otpStore, now + 1, Str(k), otpStore[k].otp, AnyToken).res)
-----------------------------------------------------------------------------
(* The schema-validated verify-otp route, server.js:648-718 *)

MsgValidationFailed == "Validation failed"
MsgNotFoundValidated == "No OTP found for this email or OTP has expired"

\* /^\d{6}$/
SixDigitPattern(s) == Len(s) = 6 /\ \A i \in 1..6 : IsDigit(s[i])

\* otpSchema.validate(req.body) reports no error.  Joi's email rule is
\* narrower than the pattern of server.js:131; the handler treats every
\* rejected body alike, whichever rule rejected it.
otpSchemaValid(email, otp) ==
    /\ email.t = "string"
    /\ emailRegexTest(email.v)
    /\ otp.t = "string"
    /\ SixDigitPattern(otp.v)

\* the handler: a body the schema rejects is answered at once; the statements
\* after the validation are those of server.js:231-277 with another NotFound text
validatedVerifyOtp(store, t, email, otp, token) ==
    IF ~otpSchemaValid(email, otp)
    THEN [store |-> store, res |-> ErrorResponse(400, MsgValidationFailed), compared |-> FALSE]
    ELSE LET r == verifyOtp(store, t, email, otp, token) IN
         IF IsNotFound(r.res)
         THEN [r EXCEPT !.res = ErrorResponse(400, MsgNotFoundValidated)]
         ELSE r

\* submitted codes, with some that are not exactly six digits
SchemaOtpInputs ==
    OtpInputs \cup { ToString(99999), ToString(1000000), Str(<<"1", "2", "3", "4", "5", "a">>) }

\* a response that reports one of the verification outcomes
IsVerificationOutcome(r) ==
    \/ IsSuccess(r)
    \/ IsInvalid(r)
    \/ IsNotFound(r) \/ IsError(r, MsgNotFoundValidated)
    \/ IsExpiredResult(r)
    \/ IsAttemptsExhausted(r)

\* C23: a request rejected by input validation leaves the store as it was and
\* its response is none of the verification outcomes: a verify without email
\* or without code, a schema-validated verify whose body the schema rejects
\* (in particular a code that is not exactly six digits), and a send-otp
\* whose email is missing or malformed.
C23_RejectedRequestsChangeNothing ==
    /\ \A email \in EmailInputs, otp \in SchemaOtpInputs :
          /\ LET r == verifyOtp(otpStore, now, email, otp, AnyToken) IN
             (~Truthy(email) \/ ~Truthy(otp))
             => /\ r.store = otpStore
                /\ ~r.compared
                /\ IsError(r.res, MsgRequired)
                /\ ~IsVerificationOutcome(r.res)
          /\ LET v == validatedVerifyOtp(otpStore, now, email, otp, AnyToken) IN
             (email.t # "string" \/ otp.t # "string" \/ Len(otp.v) # 6
                \/ \E i \in 1..Len(otp.v) : ~IsDigit(otp.v[i]))
             => /\ v.store = otpStore
                /\ ~v.compared
                /\ IsError(v.res, MsgValidationFailed)
                /\ ~IsVerificationOutcome(v.res)
    /\ \A email \in EmailInputs, otp \in generateOTP :
          LET s == sendOtpStore(otpStore, now, email, otp) IN
          (~Truthy(email) \/ ~emailRegexTest(email.v))
          => /\ s.store = otpStore
             /\ ~s.stored
             /\ s.res.status = 400
             /\ ~IsVerificationOutcome(s.res)

\* a record has one counted failure, and the request answered last was
\* rejected for a missing field or a malformed email: the counter did not move
C23_Witness ==
    /\ IsError(res, MsgRequired) \/ IsError(res, MsgEmailFormat)
    /\ \E k \in DOMAIN otpStore :
          /\ otpStore[k].attempts = 1
          /\ comparisons[k] = 1
          /\ validatedVerifyOtp(otpStore, now, Str(k), ToString(99999), AnyToken).store = otpStore
          /\ IsInvalid(Verify(k, ToString(99999)).res)
-----------------------------------------------------------------------------
\* C24: while the dispatch of an issue is pending, its record is already in
\* the store: as long as that record has not been replaced, has not expired
\* and has attempts left, verify with the dispatched code returns Success and
\* deletes it; and the step in which a pending dispatch completes, delivered
\* or not, leaves the store exactly as it was, so a record deleted meanwhile
\* is not created again.
C24_VerifyDuringDispatch ==
    [][ /\ \A i \in 1..Len(inflight) :
              LET k == inflight[i].email.v
                  code == inflight[i].otp IN
              ( /\ issued[k][Len(issued[k])] = code
                /\ comparisons[k] = 0
                /\ now <= ValidityMs )
              => /\ MapHas(otpStore, k)
                 /\ otpStore[k].otp = code
                 /\ now <= otpStore[k].expiresAt
                    => /\ IsSuccess(Verify(k, code).res)
                       /\ ~MapHas(Verify(k, code).store, k)
        /\ Len(inflight') < Len(inflight) => otpStore' = otpStore
      ]_vars

\* a code was issued with mail enabled, accepted while its dispatch was
\* pending, and the dispatch has since completed: there is no record
C24_Witness ==
    /\ smtpEnabled
    /\ issues = 1
    /\ ticks = 0
    /\ inflight = <<>>
    /\ \E k \in EmailKeys :
          /\ res = sendOtpResponse(Str(k), TRUE)
          /\ comparisons[k] = 1
          /\ ~MapHas(otpStore, k)
-----------------------------------------------------------------------------
\* C25: when issue calls for one email overlap in their dispatches, the call
\* whose store step runs last decides the record: each store step writes the
\* whole record (its code, expiresAt = now + 5 min, attempts 0) over whatever
\* is there, each completion of a dispatch, in any order and delivered or
\* not, leaves the store as it was, and so once nothing is pending (and no
\* code was compared or expired meanwhile) the one record of the email
\* carries the code of the last store step with attempts 0.
C25_LastStoreStepWins ==
    [][ /\ \A email \in MailEmailInputs, otp \in generateOTP :
              (SendOtp(email, otp) /\ issues' = issues + 1)
              => /\ DOMAIN otpStore' = DOMAIN otpStore \cup {email.v}
                 /\ otpStore'[email.v] = [otp |-> otp, expiresAt |-> now + ValidityMs, attempts |-> 0]
                 /\ \A x \in DOMAIN otpStore \ {email.v} : otpStore'[x] = otpStore[x]
        /\ Len(inflight') < Len(inflight) => otpStore' = otpStore
        /\ \A k \in EmailKeys :
              ( /\ inflight' = <<>>
                /\ Len(issued'[k]) = 2
                /\ comparisons'[k] = 0
                /\ now' <= ValidityMs )
              => /\ MapHas(otpStore', k)
                 /\ otpStore'[k].otp = issued'[k][2]
                 /\ otpStore'[k].attempts = 0
                 /\ otpStore'[k].expiresAt \in ValidityMs..(now' + ValidityMs)
      ]_vars

\* the second code was stored while the dispatch of the first was pending;
\* both dispatches have completed, the last of them undelivered, and the
\* record carries the second code with attempts 0
C25_Witness ==
    \E k \in DOMAIN otpStore :
        /\ Len(issued[k]) = 2
        /\ issued[k][1] # issued[k][2]
        /\ overlaps = 1
        /\ inflight = <<>>
        /\ mailFailures = 1
        /\ res = sendOtpResponse(Str(k), FALSE)
        /\ comparisons[k] = 0
        /\ otpStore[k].otp = issued[k][2]
        /\ otpStore[k].attempts = 0
-----------------------------------------------------------------------------
\* C26: the attempts counter of every stored record equals the number of
\* verify calls answered Invalid for its email since the record was issued;
\* while a record stays stored its counter changes only by going up by one in
\* a step that answers Invalid, or by going to 0 in a send-otp step that
\* replaces the record.
C26_AttemptsCountsInvalid ==
    [][ /\ \A k \in DOMAIN otpStore' : otpStore'[k].attempts = comparisons'[k]
        /\ \A k \in DOMAIN otpStore \cap DOMAIN otpStore' :
              otpStore'[k].attempts # otpStore[k].attempts
              => \/ /\ otpStore'[k].attempts = otpStore[k].attempts + 1
                    /\ IsInvalid(res')
                    /\ issues' = issues
                 \/ /\ otpStore'[k].attempts = 0
                    /\ issues' = issues + 1
                    /\ otpStore'[k].otp = issued'[k][Len(issued'[k])]
      ]_vars

\* a record that replaced an earlier one has since had two verify calls
\* answered Invalid, and its counter is 2
C26_Witness ==
    \E k \in DOMAIN otpStore :
        /\ Len(issued[k]) = 2
        /\ IsInvalid(res)
        /\ comparisons[k] = 2
        /\ otpStore[k].attempts = 2
-----------------------------------------------------------------------------
\* the two verify handlers agree on Success for the request (email, otp)
\* arriving in the current state
SameSuccess(email, otp) ==
    IsSuccess(verifyOtp(otpStore, now, email, otp, AnyToken).res)
    <=> ScriptIsSuccess(scriptVerifyOtp(scriptStore, now, email, otp).res)

Corresponds(serverStore, scriptSide) ==
    \A k \in EmailKeys :
        \/ ~MapHas(serverStore, k) /\ ~MapHas(scriptSide, k)
        \/ /\ MapHas(serverStore, k) /\ MapHas(scriptSide, k)
           /\ serverStore[k] = scriptSide[k]
           /\ serverStore[k].attempts < MaxAttempts
        \/ /\ MapHas(serverStore, k) /\ ~MapHas(scriptSide, k)
           /\ serverStore[k].attempts = MaxAttempts

====
